---- MODULE Spec2Model ----
(***************************************************************************)
(* Model of dask_geomodeling/geometry/merge.py: MergeGeometryBlocks.       *)
(*                                                                         *)
(* Python values are encoded as follows.                                   *)
(*   None            the empty function <<>>                               *)
(*   dict            a function from its keys (strings) to its values      *)
(*   tuple           a sequence                                            *)
(*   str / non-str   an element of a suffixes sequence is a record         *)
(*                   [type |-> "str" or "int", val |-> <text>] so that     *)
(*                   isinstance(x, str) can be decided                     *)
(*   DataFrame       a function from the row index to the value of the     *)
(*                   single data column "v"                                *)
(***************************************************************************)
EXTENDS Integers, Sequences, FiniteSets, TLC

VARIABLES
    pc,         \* "new", "failed", "ready", "asked", "done"
    call,       \* the arguments __init__ was called with, <<>> before the call
    args,       \* self.args = <<left, right, how, suffixes>>, <<>> before construction
    err,        \* the exception class raised by __init__, "" when none
    errMsg,     \* what the exception message was formatted from
    columnsOf,  \* the .columns set of every upstream GeometryBlock
    colsResult, \* the last value returned by the columns property
    colsCalls,  \* whether the columns property has been evaluated
    request,    \* the request get_sources_and_requests was called with
    asks,       \* the last list returned by get_sources_and_requests
    got,        \* the sides whose response has arrived
    issued,     \* the (source, request) pairs issued to upstream blocks
    leftResp,   \* the response of the left upstream
    rightResp,  \* the response of the right upstream
    result      \* the value returned by process

vars == <<pc, call, args, err, errMsg, columnsOf, colsResult, colsCalls,
          request, asks, got, issued, leftResp, rightResp, result>>

None == <<>>

------------------------------------------------------------------------------
(* Bounds *)

MaxCoord == 3   \* box coordinates range over 0..MaxCoord
MaxIdx == 2     \* row index values range over 1..MaxIdx

------------------------------------------------------------------------------
(* Objects handed to the constructor *)

GeometryBlocks == {"A", "B"}
NonBlocks == {"raster"}
Objects == GeometryBlocks \cup NonBlocks

isinstance_GeometryBlock(obj) == obj \in GeometryBlocks

ColumnNames == {"v", "v_right", "w"}

StrVal(s) == [type |-> "str", val |-> s]
IntVal(s) == [type |-> "int", val |-> s]
isinstance_str(x) == x.type = "str"

default_suffixes == <<StrVal(""), StrVal("_right")>>

SuffixInputs ==
    { default_suffixes,
      <<StrVal("_l"), StrVal("_r")>>,
      <<StrVal("_x"), StrVal("_x")>>,
      <<StrVal("a")>>,
      <<>>,
      <<StrVal("a"), StrVal("b"), StrVal("c")>>,
      <<IntVal("1"), StrVal("a")>>,
      <<StrVal("a"), IntVal("1")>>,
      <<IntVal("1")>>,
      <<IntVal("1"), IntVal("2"), StrVal("c")>> }

allow_how_joins == <<"left", "right", "outer", "inner">>

HowInputs == {"left", "right", "outer", "inner", "bogus"}

InTuple(x, t) == \E i \in 1..Len(t) : t[i] = x

------------------------------------------------------------------------------
(* __init__ *)

\* __init__ without the check of the join kind
InitError_NoHowCheck(left, right, how, suffixes) ==
    IF ~isinstance_GeometryBlock(left) THEN "TypeError"
    ELSE IF ~isinstance_GeometryBlock(right) THEN "TypeError"
    ELSE IF Len(suffixes) < 1 THEN "IndexError"
    ELSE IF ~isinstance_str(suffixes[1]) THEN "TypeError"
    ELSE IF Len(suffixes) < 2 THEN "IndexError"
    ELSE IF ~isinstance_str(suffixes[2]) THEN "TypeError"
    ELSE IF Len(suffixes) # 2 THEN "TypeError"
    ELSE ""

\* The exception raised by the checks of __init__, in the order the code
\* evaluates them; "" when every check passes.  suffixes[0] and suffixes[1]
\* are subscripted before len(suffixes) is looked at, and a subscript past
\* the end of a tuple raises IndexError.
InitError(left, right, how, suffixes) ==
    IF ~isinstance_GeometryBlock(left) THEN "TypeError"
    ELSE IF ~isinstance_GeometryBlock(right) THEN "TypeError"
    ELSE IF ~InTuple(how, allow_how_joins) THEN "KeyError"
    ELSE IF Len(suffixes) < 1 THEN "IndexError"
    ELSE IF ~isinstance_str(suffixes[1]) THEN "TypeError"
    ELSE IF Len(suffixes) < 2 THEN "IndexError"
    ELSE IF ~isinstance_str(suffixes[2]) THEN "TypeError"
    ELSE IF Len(suffixes) # 2 THEN "TypeError"
    ELSE ""

\* What the message of the exception is formatted from.
InitMessage(left, right, how, suffixes) ==
    IF ~isinstance_GeometryBlock(left) THEN <<"type", left>>
    ELSE IF ~isinstance_GeometryBlock(right) THEN <<"type", right>>
    ELSE IF ~InTuple(how, allow_how_joins) THEN <<how, allow_how_joins>>
    ELSE IF Len(suffixes) < 1 THEN <<"tuple index out of range">>
    ELSE IF ~isinstance_str(suffixes[1]) THEN <<"type", "suffixes">>
    ELSE IF Len(suffixes) < 2 THEN <<"tuple index out of range">>
    ELSE IF ~isinstance_str(suffixes[2]) THEN <<"type", "suffixes">>
    ELSE IF Len(suffixes) # 2 THEN <<"type", "suffixes">>
    ELSE <<>>

Construct ==
    /\ pc = "new"
    /\ \E left \in Objects, right \in Objects, how \in HowInputs,
          suffixes \in SuffixInputs :
            /\ call' = <<left, right, how, suffixes>>
            /\ err' = InitError(left, right, how, suffixes)
            /\ errMsg' = InitMessage(left, right, how, suffixes)
            /\ IF InitError(left, right, how, suffixes) = ""
               THEN /\ args' = <<left, right, how, suffixes>>
                    /\ pc' = "ready"
               ELSE /\ args' = args
                    /\ pc' = "failed"
    /\ UNCHANGED <<columnsOf, colsResult, colsCalls, request, asks, got,
                   issued, leftResp, rightResp, result>>

------------------------------------------------------------------------------
(* The args properties *)

left_ == args[1]
right_ == args[2]
how_ == args[3]
suffixes_ == args[4]

------------------------------------------------------------------------------
(* columns *)

\* columns starting from the union instead of the symmetric difference
columns_Union(left, right, suffixes) ==
    LET overlap == left \cap right
    IN  (left \cup right)
        \cup UNION { {col \o suffixes[1].val, col \o suffixes[2].val} :
                     col \in overlap }

columns(left, right, suffixes) ==
    LET xor == (left \ right) \cup (right \ left)
        overlap == left \cap right
    IN  xor \cup UNION { {col \o suffixes[1].val, col \o suffixes[2].val} :
                         col \in overlap }

Columns ==
    /\ pc = "ready"
    /\ colsResult' = columns(columnsOf[left_], columnsOf[right_], suffixes_)
    /\ colsCalls' = TRUE
    /\ UNCHANGED <<pc, call, args, err, errMsg, columnsOf, request, asks, got,
                   issued, leftResp, rightResp, result>>

------------------------------------------------------------------------------
(* get_sources_and_requests *)

Modes == {"intersects", "centroid", "extent", "other"}
ExtraKeys == {"geometry", "min_size"}

Requests ==
    UNION { { [k \in K \cup {"mode"} |-> IF k = "mode" THEN m ELSE "opaque"] :
              m \in Modes } : K \in SUBSET ExtraKeys }

\* get_sources_and_requests forwarding the mode alone
get_sources_and_requests_ModeOnly(req) ==
    LET process_kwargs == [how |-> how_, suffixes |-> suffixes_,
                           mode |-> req["mode"]]
        forwarded == [k \in {"mode"} |-> req["mode"]]
    IN  << <<left_, forwarded>>, <<right_, forwarded>>,
           <<process_kwargs, None>> >>

get_sources_and_requests(req) ==
    LET process_kwargs == [how |-> how_, suffixes |-> suffixes_,
                           mode |-> req["mode"]]
    IN  << <<left_, req>>, <<right_, req>>, <<process_kwargs, None>> >>

GetSourcesAndRequests ==
    /\ pc = "ready"
    /\ \E req \in Requests :
          /\ request' = req
          /\ asks' = get_sources_and_requests(req)
    /\ pc' = "asked"
    /\ UNCHANGED <<call, args, err, errMsg, columnsOf, colsResult, colsCalls,
                   got, issued, leftResp, rightResp, result>>

------------------------------------------------------------------------------
(* Upstream responses *)

Projections == {"EPSG:4326", "EPSG:28992"}

Coords == 0..MaxCoord

\* (minx, miny, maxx, maxy) of a rectangle with a non-empty interior
Boxes ==
    { b \in Coords \X Coords \X Coords \X Coords : b[1] < b[3] /\ b[2] < b[4] }

Extents == {None} \cup Boxes

ExtentResponses == [extent : Extents, projection : Projections]

DataValues == {"p", "q"}
NaN == "NaN"

\* A DataFrame with one data column "v": row index -> value of "v"
Tables == UNION { [I -> DataValues] : I \in SUBSET (1..MaxIdx) }

FeatureResponses == [features : Tables, projection : Projections]

OtherResponses == [projection : Projections]

ResponsesFor(mode) ==
    IF mode \in {"intersects", "centroid"} THEN FeatureResponses
    ELSE IF mode = "extent" THEN ExtentResponses
    ELSE OtherResponses

LeftResponds ==
    /\ pc = "asked"
    /\ "left" \notin got
    /\ \E resp \in ResponsesFor(asks[1][2]["mode"]) : leftResp' = resp
    /\ got' = got \cup {"left"}
    /\ issued' = issued \cup {asks[1]}
    /\ UNCHANGED <<pc, call, args, err, errMsg, columnsOf, colsResult,
                   colsCalls, request, asks, rightResp, result>>

RightResponds ==
    /\ pc = "asked"
    /\ "right" \notin got
    /\ \E resp \in ResponsesFor(asks[2][2]["mode"]) : rightResp' = resp
    /\ got' = got \cup {"right"}
    /\ issued' = issued \cup {asks[2]}
    /\ UNCHANGED <<pc, call, args, err, errMsg, columnsOf, colsResult,
                   colsCalls, request, asks, leftResp, result>>

------------------------------------------------------------------------------
(* pandas.merge(left, right, how, suffixes, left_index=True, right_index=True)
   on frames that both carry the data column "v" *)

\* a join on the data column "v" instead of the index
MatchedRows_OnData(left, right) ==
    { p \in (DOMAIN left) \X (DOMAIN right) : left[p[1]] = right[p[2]] }

\* The pairs of a left and a right row that the join matches
MatchedRows(left, right) ==
    { p \in (DOMAIN left) \X (DOMAIN right) : p[1] = p[2] }

Row(index, suffixes, lv, rv) ==
    [index |-> index,
     data |-> [c \in {"v" \o suffixes[1].val, "v" \o suffixes[2].val} |->
                 IF c = "v" \o suffixes[1].val THEN lv ELSE rv]]

pd_merge(left, right, how, suffixes) ==
    LET matched == MatchedRows(left, right)
        leftOnly == { i \in DOMAIN left : \A p \in matched : p[1] # i }
        rightOnly == { j \in DOMAIN right : \A p \in matched : p[2] # j }
    IN  { Row(p[1], suffixes, left[p[1]], right[p[2]]) : p \in matched }
        \cup (IF how \in {"left", "outer"}
              THEN { Row(i, suffixes, left[i], NaN) : i \in leftOnly }
              ELSE {})
        \cup (IF how \in {"right", "outer"}
              THEN { Row(j, suffixes, NaN, right[j]) : j \in rightOnly }
              ELSE {})

IndexOf(frame) == { row.index : row \in frame }

------------------------------------------------------------------------------
(* shapely: box, intersection, union, is_empty, bounds.  A geometry with
   integer corner coordinates is represented by the integer points it
   covers; the corners of an intersection or a union of such boxes are
   integer points again, so the bounds are exact. *)

box(extent) ==
    { <<x, y>> \in Coords \X Coords :
        /\ extent[1] <= x /\ x <= extent[3]
        /\ extent[2] <= y /\ y <= extent[4] }

intersection(a, b) == a \cap b
union(a, b) == a \cup b
is_empty(shape) == shape = {}

SetMin(S) == CHOOSE m \in S : \A n \in S : m <= n
SetMax(S) == CHOOSE m \in S : \A n \in S : n <= m

bounds(shape) ==
    LET xs == { p[1] : p \in shape }
        ys == { p[2] : p \in shape }
    IN  <<SetMin(xs), SetMin(ys), SetMax(xs), SetMax(ys)>>

\* Python truth value of an extent: None (and the empty tuple) is false
Truthy(extent) == extent # None

------------------------------------------------------------------------------
(* process *)

\* the right join rebuilt from the right extent and the left projection
extent_passthrough_Rebuilt(how, left, right) ==
    IF how = "left" THEN left
    ELSE [extent |-> right["extent"], projection |-> left["projection"]]

extent_passthrough(how, left, right) ==
    IF how = "left" THEN left ELSE right

\* the inner join taking the union of the two boxes
extent_inner_Union(left, right, projection) ==
    LET values ==
          IF Truthy(left["extent"]) /\ Truthy(right["extent"])
          THEN LET left_shape == box(left["extent"])
                   right_shape == box(right["extent"])
                   extent == union(left_shape, right_shape)
               IN  IF ~is_empty(extent) THEN bounds(extent) ELSE None
          ELSE None
    IN  [extent |-> values, projection |-> projection]

extent_inner(left, right, projection) ==
    LET values ==
          IF Truthy(left["extent"]) /\ Truthy(right["extent"])
          THEN LET left_shape == box(left["extent"])
                   right_shape == box(right["extent"])
                   extent == intersection(left_shape, right_shape)
               IN  IF ~is_empty(extent) THEN bounds(extent) ELSE None
          ELSE None
    IN  [extent |-> values, projection |-> projection]

\* the outer join without the branch for a right extent alone
extent_outer_NoRightBranch(left, right, projection) ==
    LET values ==
          IF Truthy(left["extent"]) /\ Truthy(right["extent"])
          THEN bounds(union(box(left["extent"]), box(right["extent"])))
          ELSE IF Truthy(left["extent"]) THEN left["extent"]
          ELSE None
    IN  [extent |-> values, projection |-> projection]

extent_outer(left, right, projection) ==
    LET values ==
          IF Truthy(left["extent"]) /\ Truthy(right["extent"])
          THEN bounds(union(box(left["extent"]), box(right["extent"])))
          ELSE IF Truthy(left["extent"]) THEN left["extent"]
          ELSE IF Truthy(right["extent"]) THEN right["extent"]
          ELSE None
    IN  [extent |-> values, projection |-> projection]

process(left, right, kwargs) ==
    LET mode == kwargs["mode"]
        how == kwargs["how"]
        projection == left["projection"]
    IN  IF mode = "intersects" \/ mode = "centroid"
        THEN [features |-> pd_merge(left["features"], right["features"],
                                    kwargs["how"], kwargs["suffixes"]),
              projection |-> projection]
        ELSE IF mode = "extent"
        THEN IF how = "left" \/ how = "right"
             THEN extent_passthrough(how, left, right)
             ELSE IF how = "inner" THEN extent_inner(left, right, projection)
             ELSE IF how = "outer" THEN extent_outer(left, right, projection)
             ELSE None
        ELSE None

Process ==
    /\ pc = "asked"
    /\ got = {"left", "right"}
    /\ result' = process(leftResp, rightResp, asks[3][1])
    /\ pc' = "done"
    /\ UNCHANGED <<call, args, err, errMsg, columnsOf, colsResult, colsCalls,
                   request, asks, got, issued, leftResp, rightResp>>

------------------------------------------------------------------------------
(* The node: construction, schema, request fan-out *)

Init ==
    /\ pc = "new"
    /\ call = <<>>
    /\ args = <<>>
    /\ err = ""
    /\ errMsg = <<>>
    /\ columnsOf \in [GeometryBlocks -> SUBSET ColumnNames]
    /\ colsResult = {}
    /\ colsCalls = FALSE
    /\ request = None
    /\ asks = <<>>
    /\ got = {}
    /\ issued = {}
    /\ leftResp = None
    /\ rightResp = None
    /\ result = None

Next == Construct \/ Columns \/ GetSourcesAndRequests

Spec == Init /\ [][Next]_vars

------------------------------------------------------------------------------
(* The combination step: a constructed node answers one request *)

InitProcess ==
    /\ pc = "ready"
    /\ \E how \in {"left", "right", "outer", "inner"} :
          /\ call = <<"A", "B", how, default_suffixes>>
          /\ args = <<"A", "B", how, default_suffixes>>
    /\ err = ""
    /\ errMsg = <<>>
    /\ columnsOf = [b \in GeometryBlocks |-> {"v"}]
    /\ colsResult = {}
    /\ colsCalls = FALSE
    /\ request = None
    /\ asks = <<>>
    /\ got = {}
    /\ issued = {}
    /\ leftResp = None
    /\ rightResp = None
    /\ result = None

NextProcess == GetSourcesAndRequests \/ LeftResponds \/ RightResponds \/ Process

SpecProcess == InitProcess /\ [][NextProcess]_vars

------------------------------------------------------------------------------
(* Properties *)

Constructed == pc \in {"ready", "asked", "done"}
RecognisedModes == {"intersects", "centroid", "extent"}
Max2(a, b) == IF a >= b THEN a ELSE b
Min2(a, b) == IF a <= b THEN a ELSE b

\* C1: for every mode in {intersects, centroid, extent} and every join kind,
\* the projection of the response returned by process equals the projection
\* of the left response, also when the two upstream projections differ.
C1_ProjectionFromLeft ==
    (pc = "done" /\ asks[3][1]["mode"] \in RecognisedModes)
        => result["projection"] = leftResp["projection"]

C4_PassThrough ==
    [][(/\ pc = "asked"
        /\ pc' = "done"
        /\ asks[3][1]["mode"] = "extent"
        /\ asks[3][1]["how"] \in {"left", "right"})
          => /\ asks[3][1]["how"] = "left" => result' = leftResp
             /\ asks[3][1]["how"] = "right" => result' = rightResp
             /\ leftResp' = leftResp
             /\ rightResp' = rightResp]_vars

\* join kind right returned the right response although the left response
\* differs from it in extent and in projection and the right extent is absent
C4_Witness ==
    /\ pc = "done"
    /\ asks[3][1]["mode"] = "extent"
    /\ asks[3][1]["how"] = "right"
    /\ rightResp["extent"] = None
    /\ leftResp["extent"] # None
    /\ leftResp["projection"] # rightResp["projection"]
    /\ result = rightResp

\* C5: intersects or centroid mode, non-empty row-index sets L and R: the
\* row-index set of the merged features is L for left, R for right, the
\* intersection for inner and the union for outer, whatever the data column
\* holds.
C5_JoinIndex ==
    (/\ pc = "done"
     /\ asks[3][1]["mode"] \in {"intersects", "centroid"}
     /\ DOMAIN leftResp["features"] # {}
     /\ DOMAIN rightResp["features"] # {})
        => LET L == DOMAIN leftResp["features"]
               R == DOMAIN rightResp["features"]
               how == asks[3][1]["how"]
               merged == IndexOf(result["features"])
           IN  /\ how = "left" => merged = L
               /\ how = "right" => merged = R
               /\ how = "inner" => merged = L \cap R
               /\ how = "outer" => merged = L \cup R

\* an inner join of rows 1 and 2, whose data values agree across the two
\* indices but not on them, kept no row
C5_Witness ==
    /\ pc = "done"
    /\ asks[3][1]["mode"] = "centroid"
    /\ asks[3][1]["how"] = "inner"
    /\ DOMAIN leftResp["features"] = {1}
    /\ DOMAIN rightResp["features"] = {2}
    /\ leftResp["features"][1] = rightResp["features"][2]
    /\ result["features"] = {}

ValidSuffixes(suffixes) ==
    /\ Len(suffixes) = 2
    /\ \A i \in 1..Len(suffixes) : suffixes[i].type = "str"

\* C6: a suffixes argument that is not exactly two strings makes the
\* construction fail with TypeError and with no other error kind.
C6_SuffixesTypeError ==
    (/\ call # <<>>
     /\ call[1] \in GeometryBlocks
     /\ call[2] \in GeometryBlocks
     /\ InTuple(call[3], allow_how_joins)
     /\ ~ValidSuffixes(call[4]))
        => (pc = "failed" /\ err = "TypeError")

\* Every name a columns result may hold
CandidateNames ==
    ColumnNames \cup colsResult
    \cup { c \o s[i].val : c \in ColumnNames,
                           s \in { t \in SuffixInputs : ValidSuffixes(t) },
                           i \in {1, 2} }

\* C7: columns returns exactly the names present in one side only, unchanged,
\* and name+suffixes[0], name+suffixes[1] for every name present in both
\* sides; the join kind plays no part, no request is issued and the upstream
\* column sets stay as they were.
C7_Columns ==
    /\ [](colsCalls =>
            LET L == columnsOf[args[1]]
                R == columnsOf[args[2]]
                s0 == args[4][1].val
                s1 == args[4][2].val
            IN  \A n \in CandidateNames :
                   n \in colsResult <=>
                     \/ n \in L /\ n \notin R
                     \/ n \in R /\ n \notin L
                     \/ \E c \in L \cap R : n = c \o s0 \/ n = c \o s1)
    /\ [][(colsResult' # colsResult \/ colsCalls' # colsCalls)
            => UNCHANGED <<columnsOf, issued, request, asks, args>>]_vars

\* both sides hold "v", only the left holds "v_right", and the default
\* suffixes map the shared "v" onto "v" and "v_right"
C7_Witness ==
    /\ colsCalls
    /\ args[4] = default_suffixes
    /\ columnsOf[args[1]] = {"v", "v_right", "w"}
    /\ columnsOf[args[2]] = {"v"}
    /\ colsResult = {"v", "v_right", "w"}

\* C8: get_sources_and_requests returns three asks in the order (left,
\* request), (right, request), (params, no request); both forwarded requests
\* carry the keys and values of the incoming one, and params is exactly
\* {how, suffixes, mode} of the node and the request.
C8_Asks ==
    pc \in {"asked", "done"} =>
        /\ Len(asks) = 3
        /\ asks[1][1] = args[1]
        /\ asks[2][1] = args[2]
        /\ \A i \in {1, 2} :
              /\ DOMAIN asks[i][2] = DOMAIN request
              /\ \A k \in DOMAIN request : asks[i][2][k] = request[k]
        /\ asks[3][2] = None
        /\ DOMAIN asks[3][1] = {"how", "suffixes", "mode"}
        /\ asks[3][1]["how"] = args[3]
        /\ asks[3][1]["suffixes"] = args[4]
        /\ asks[3][1]["mode"] = request["mode"]

\* a request with two extra keys was fanned out by a node whose two upstreams
\* differ
C8_Witness ==
    /\ pc = "asked"
    /\ DOMAIN request = {"mode", "geometry", "min_size"}
    /\ args[1] # args[2]
    /\ args[3] = "outer"

\* C9: construction succeeds only with two geometry sources and a join kind
\* of the fixed set; a non-source left or right fails with TypeError, a join
\* kind outside the set with KeyError whose message lists the valid set; the
\* failure happens before any request, so a node that can be asked has a join
\* kind of the set, and the join kind never changes afterwards.
C9_Construction ==
    /\ [](call # <<>> =>
            /\ Constructed =>
                  /\ call[1] \in GeometryBlocks
                  /\ call[2] \in GeometryBlocks
                  /\ InTuple(call[3], allow_how_joins)
                  /\ args[3] = call[3]
                  /\ err = ""
            /\ (call[1] \notin GeometryBlocks \/ call[2] \notin GeometryBlocks)
                  => (pc = "failed" /\ err = "TypeError")
            /\ (/\ call[1] \in GeometryBlocks
                /\ call[2] \in GeometryBlocks
                /\ ~InTuple(call[3], allow_how_joins))
                  => /\ pc = "failed"
                     /\ err = "KeyError"
                     /\ errMsg = <<call[3], allow_how_joins>>
            /\ pc = "failed" => (args = <<>> /\ asks = <<>> /\ issued = {}))
    /\ [](asks # <<>> => InTuple(args[3], allow_how_joins))
    /\ [][Constructed => args' = args]_vars

\* a node was constructed and asked; another construction was refused for its
\* join kind
C9_Witness ==
    \/ pc = "asked" /\ args[3] = "right"
    \/ pc = "failed" /\ err = "KeyError" /\ call[3] = "bogus"

\* C10: every response returned by process has a projection entry, for every
\* mode carried in params and every join kind.
C10_AlwaysProjection ==
    pc = "done" => "projection" \in DOMAIN result

====
